---- MODULE Spec2Model ----
(***************************************************************************)
(* infinoted_config_reload (infinoted-config-reload.c): the live           *)
(* reconfiguration of a running infinoted server, modelled statement block *)
(* by statement block.  The InfinotedRun fields are the variable run, the  *)
(* GObjects it points to (XMPP/TCP servers, plugin managers, storages) are *)
(* kept in heap maps indexed by object identity, and the locals of the     *)
(* running call are the record L.  Pointers are object identities, NULL is *)
(* 0.                                                                      *)
(***************************************************************************)
EXTENDS Integers, FiniteSets, Sequences, TLC

\* ---------------------------------------------------------------- bounds
MaxReloads == 2         \* number of infinoted_config_reload calls
MaxPluginRefs == 1      \* references plugins may hold on a plugin manager
MaxEvents == 4          \* connections and sessions coming and going

\* ------------------------------------------------------------ input sets
NULL == 0
NoAddress == "NULL"                       \* listen_address == NULL
Addresses == {"192.0.2.1", "192.0.2.2"}   \* explicit listen addresses
Ports == {6523, 6524}
RootDirectories == {"/srv/a", "/srv/b"}
SecurityPolicies == {"only-unsecured", "both"}
Plugins == {"autosave"}
Connections == {"xmpp1", "simulated1"}

INFINOTED_CONFIG_RELOAD_IPV6_ANY_ADDR == "::"

\* object identities.  A pointer's value means nothing but which object it
\* is, so objects are named per call: generation 0 names the objects that
\* are live when a call is entered, generation 1 the objects the call creates
\* (see Canon* below for the renaming between two calls)
StartupId(n) == n + 1
Tcp6Id(n) == 2 * n + 1
Tcp4Id(n) == 2 * n + 2
ManagerId(n) == n + 1
StorageId(n) == n + 1
DhId(n) == n + 1

ServerIds == {Tcp6Id(0), Tcp4Id(0), Tcp6Id(1), Tcp4Id(1)}
ManagerIds == {ManagerId(0), ManagerId(1)}
StorageIds == {StorageId(0), StorageId(1)}

VARIABLES
  run,        \* InfinotedRun: startup, dh_params, xmpp4, xmpp6, plugin_manager
  pool,       \* run->pool: the servers registered in the InfdServerPool
  directory,  \* run->directory: storage, account_storage
  conns,      \* the connections of run->directory
  servers,    \* heap: InfdTcpServer/InfdXmppServer objects
  managers,   \* heap: InfinotedPluginManager objects
  storages,   \* heap: InfdFilesystemStorage (+ account storage) objects
  freed,      \* InfinotedStartup objects freed by the running/last call
  L,          \* the locals of the running infinoted_config_reload call
  pc,         \* position of the running call, "idle", "returned" or "crashed"
  result,     \* return value of the last call
  error,      \* *error after the last call
  calls,      \* number of calls made
  pre,        \* the live state when the running/last call was entered
  h,          \* what the running/last call has done so far
  pm          \* the inside of one InfinotedPluginManager (followed in SpecPM)

vars == <<run, pool, directory, conns, servers, managers, storages, freed, L,
          pc, result, error, calls, pre, h, pm>>

\* the variables of the reload
reloadVars ==
  <<run, pool, directory, conns, servers, managers, storages, freed, L,
    pc, result, error, calls, pre, h>>

\* ------------------------------------------------------------ data shapes
\* InfinotedStartup with its options, credentials and sasl_context
Startup(id, addr, port, policy, sasl, root) ==
  [id |-> id, listen_address |-> addr, port |-> port,
   security_policy |-> policy,
   credentials |-> IF policy = "only-unsecured" THEN NULL ELSE id,
   sasl_context |-> IF sasl THEN id ELSE NULL,
   root_directory |-> root, plugins |-> Plugins]

NoStartup ==
  [id |-> NULL, listen_address |-> NoAddress, port |-> 0,
   security_policy |-> "only-unsecured", credentials |-> NULL,
   sasl_context |-> NULL, root_directory |-> "", plugins |-> {}]

NoServer ==
  [status |-> "none", port |-> 0, address |-> NoAddress, credentials |-> NULL,
   security_policy |-> "only-unsecured", sasl_context |-> NULL,
   sasl_mechanisms |-> "NULL"]

NoManager == [refs |-> 0, state |-> "none", instances |-> {}]
NoStorage == [root_directory |-> "", state |-> "none"]

NoLocals ==
  [startup |-> NoStartup, dh_params |-> NULL, tcp4 |-> NULL, tcp6 |-> NULL,
   port |-> 0, local_error |-> "none", filesystem_storage |-> NULL,
   filesystem_account_storage |-> NULL, plugin_manager |-> NULL,
   load_result |-> TRUE]

NoHistory ==
  [created |-> {}, bind_failed |-> {}, opened |-> {}, open_failed |-> {},
   closed |-> {},
   dh_generated |-> FALSE,
   dh_attempted |-> FALSE, garbage |-> "none", load_failed |-> FALSE,
   startup |-> NoStartup]

\* the part of the server a caller can observe: the run fields, the pool,
\* the directory, and the objects the run fields point to
LiveState ==
  [run |-> run, pool |-> pool, directory |-> directory, conns |-> conns,
   xmpp4 |-> IF run.xmpp4 = NULL THEN NoServer ELSE servers[run.xmpp4],
   xmpp6 |-> IF run.xmpp6 = NULL THEN NoServer ELSE servers[run.xmpp6],
   manager |-> managers[run.plugin_manager],
   storage |-> storages[directory.storage]]

\* ----------------------------------------------------------- pure helpers
\* inf_ip_address_collate: 0 iff the two addresses are equal
inf_ip_address_collate(a, b) == IF a = b THEN 0 ELSE 1

\* a comparison that never sees a difference
strcmp_equal(a, b) == 0

\* strcmp: 0 iff the two strings are equal
strcmp(a, b) == IF a = b THEN 0 ELSE 1

\* the listen-address check without its "listen address removed" case
ListenAddressChangedNoneMissed(new, old) ==
  \/ (new.listen_address # NoAddress /\ old.listen_address = NoAddress)
  \/ (/\ new.listen_address # NoAddress
      /\ old.listen_address # NoAddress
      /\ inf_ip_address_collate(new.listen_address, old.listen_address) # 0)

\* the listen-address check without its "listen address added" case
ListenAddressChangedSomeMissed(new, old) ==
  \/ (new.listen_address = NoAddress /\ old.listen_address # NoAddress)
  \/ (/\ new.listen_address # NoAddress
      /\ old.listen_address # NoAddress
      /\ inf_ip_address_collate(new.listen_address, old.listen_address) # 0)

\* the condition of the listen-address check
ListenAddressChanged(new, old) ==
  \/ (new.listen_address # NoAddress /\ old.listen_address = NoAddress)
  \/ (new.listen_address = NoAddress /\ old.listen_address # NoAddress)
  \/ (/\ new.listen_address # NoAddress
      /\ old.listen_address # NoAddress
      /\ inf_ip_address_collate(new.listen_address, old.listen_address) # 0)

\* the port the server currently runs on: tcp6's if there is one, else tcp4's
CurrentPort ==
  IF run.xmpp6 # NULL THEN servers[run.xmpp6].port ELSE servers[run.xmpp4].port

\* g_object_unref on a plugin manager: the last reference finalizes it, and
\* finalization unloads (deinitializes) every plugin instance
UnrefManager(ms, id) ==
  IF ms[id].refs > 1
  THEN [ms EXCEPT ![id].refs = @ - 1]
  ELSE [ms EXCEPT ![id] = [refs |-> 0, state |-> "finalized", instances |-> {}]]

\* the values the uninitialized local plugin_manager can hold when it is
\* handed to g_object_unref: NULL, the pointer a previous call left in the
\* same stack slot (the live plugin manager), or a pointer to no object
GarbagePointers == {"null", "live", "wild"}

\* ------------------------------------------------- the plugin manager
\* The plugin manager behind infinoted_plugin_manager_new/_load: its plugin
\* instances, the connection and session infos it keeps for them, and the
\* callbacks it makes on the plugins, in order (log).
PluginNames == {"autosave", "logging"}
PluginOrder == <<"autosave", "logging">>
Sessions == {"text1", "chat1"}
SessionType(s) == IF s = "text1" THEN "InfTextSession" ELSE "InfChatSession"

\* the InfinotedPlugin structure a plugin exports
InfinotedPlugin(name) ==
  IF name = "autosave"
  THEN [name |-> name, info_size |-> 16, connection_info_size |-> 0,
        session_info_size |-> 8, session_type |-> "InfTextSession"]
  ELSE [name |-> name, info_size |-> 16, connection_info_size |-> 8,
        session_info_size |-> 8, session_type |-> "NULL"]

\* a callback made on plugin p for object x
Call(cb, p, x) == [cb |-> cb, plugin |-> p, obj |-> x]

\* an allocated plugin, connection or session info structure
Block(kind, p, x) == <<kind, p, x>>

infinoted_plugin_manager_new ==
  [state |-> "new", requested |-> {}, init_ok |-> {}, instances |-> {},
   connection_infos |-> {}, session_infos |-> {}, blocks |-> {},
   connections |-> {}, sessions |-> {}, log |-> <<>>, unload_from |-> 0,
   at_unload |-> [instances |-> {}, connection_infos |-> {},
                  session_infos |-> {}],
   events |-> 0]

\* connection c is tracked for instance p: info allocated, callback made
add_connection(m, p, c) ==
  [m EXCEPT !.connection_infos = @ \cup {<<p, c>>},
            !.blocks = IF InfinotedPlugin(p).connection_info_size > 0
                       THEN @ \cup {Block("connection", p, c)} ELSE @,
            !.log = Append(@, Call("on_connection_added", p, c))]

\* connection c is dropped for instance p: callback made, info freed
remove_connection(m, p, c) ==
  IF <<p, c>> \notin m.connection_infos THEN m
  ELSE [m EXCEPT !.connection_infos = @ \ {<<p, c>>},
                 !.blocks = @ \ {Block("connection", p, c)},
                 !.log = Append(@, Call("on_connection_removed", p, c))]

\* sessions are filtered by the session type the plugin declares
check_session_type(p, s) ==
  \/ InfinotedPlugin(p).session_type = "NULL"
  \/ InfinotedPlugin(p).session_type = SessionType(s)

\* session s is tracked for instance p, if it is of the plugin's type
add_session(m, p, s) ==
  IF ~check_session_type(p, s) THEN m
  ELSE [m EXCEPT !.session_infos = @ \cup {<<p, s>>},
                 !.blocks = IF InfinotedPlugin(p).session_info_size > 0
                            THEN @ \cup {Block("session", p, s)} ELSE @,
                 !.log = Append(@, Call("on_session_added", p, s))]

\* session s is dropped for instance p
remove_session(m, p, s) ==
  IF <<p, s>> \notin m.session_infos THEN m
  ELSE [m EXCEPT !.session_infos = @ \ {<<p, s>>},
                 !.blocks = @ \ {Block("session", p, s)},
                 !.log = Append(@, Call("on_session_removed", p, s))]

\* one of the four notifications, for instance p and object x
Notify(what, m, p, x) ==
  CASE what = "connection_added" -> add_connection(m, p, x)
    [] what = "connection_removed" -> remove_connection(m, p, x)
    [] what = "session_added" -> add_session(m, p, x)
    [] what = "session_removed" -> remove_session(m, p, x)

\* instance p is notified of every object in xs
RECURSIVE ForEachObject(_, _, _, _)
ForEachObject(what, m, p, xs) ==
  IF xs = {} THEN m
  ELSE LET x == CHOOSE y \in xs : TRUE
       IN ForEachObject(what, Notify(what, m, p, x), p, xs \ {x})

\* every instance in ps is notified of object x
RECURSIVE ForEachPlugin(_, _, _, _)
ForEachPlugin(what, m, ps, x) ==
  IF ps = {} THEN m
  ELSE LET p == CHOOSE q \in ps : TRUE
       IN ForEachPlugin(what, Notify(what, m, p, x), ps \ {p}, x)

\* a plugin whose initialize failed dropped without its deinitialize
load_plugin_no_cleanup(m, p, ok) ==
  LET made == [m EXCEPT !.log = Append(@, Call("on_initialize", p, p))]
  IN IF ok
     THEN [made EXCEPT !.instances = @ \cup {p},
                       !.blocks = @ \cup {Block("plugin", p, p)}]
     ELSE made

\* one plugin of the list is loaded: instantiated and initialized; if
\* initialize fails, deinitialize is called and the instance is discarded;
\* else it is told of the connections and sessions there are
load_plugin(m, p, ok) ==
  LET made == [m EXCEPT !.blocks = @ \cup {Block("plugin", p, p)},
                        !.log = Append(@, Call("on_initialize", p, p))]
      live == [made EXCEPT !.instances = @ \cup {p}]
      conns_added == ForEachObject("connection_added", live, p, m.connections)
  IN IF ok
     THEN ForEachObject("session_added", conns_added, p, m.sessions)
     ELSE [made EXCEPT !.blocks = @ \ {Block("plugin", p, p)},
                       !.log = Append(@, Call("on_deinitialize", p, p))]

RECURSIVE load_plugins(_, _, _)
load_plugins(m, names, ok) ==
  IF names = <<>> THEN m
  ELSE load_plugins(load_plugin(m, Head(names), Head(names) \in ok),
                    Tail(names), ok)

\* infinoted_plugin_manager_load with the plugins in ok initializing
infinoted_plugin_manager_load(m, requested, ok) ==
  LET names == SelectSeq(PluginOrder, LAMBDA p : p \in requested)
  IN [load_plugins(m, names, ok) EXCEPT !.state = "loaded",
                                        !.requested = requested,
                                        !.init_ok = ok]

\* an instance unloaded without a word about its connections
unload_plugin_forgets_connections(m, p) ==
  LET ss == {s \in Sessions : <<p, s>> \in m.session_infos}
      gone == ForEachObject("session_removed", m, p, ss)
  IN [gone EXCEPT !.instances = @ \ {p},
                  !.blocks = {b \in @ : b[2] # p},
                  !.connection_infos = {ci \in @ : ci[1] # p},
                  !.log = Append(@, Call("on_deinitialize", p, p))]

\* one instance is unloaded: session-removed for its sessions, then
\* connection-removed for its connections, then deinitialize, then freed
unload_plugin(m, p) ==
  LET ss == {s \in Sessions : <<p, s>> \in m.session_infos}
      cs == {c \in Connections : <<p, c>> \in m.connection_infos}
      sessions_gone == ForEachObject("session_removed", m, p, ss)
      gone == ForEachObject("connection_removed", sessions_gone, p, cs)
  IN [gone EXCEPT !.instances = @ \ {p},
                  !.blocks = @ \ {Block("plugin", p, p)},
                  !.log = Append(@, Call("on_deinitialize", p, p))]

RECURSIVE unload_plugins(_, _)
unload_plugins(m, ps) ==
  IF ps = {} THEN m
  ELSE LET p == CHOOSE q \in ps : TRUE
       IN unload_plugins(unload_plugin(m, p), ps \ {p})

\* the plugin manager is unloaded: every instance is
infinoted_plugin_manager_unload(m) ==
  LET from == [m EXCEPT !.unload_from = Len(m.log),
                        !.at_unload =
                          [instances |-> m.instances,
                           connection_infos |-> m.connection_infos,
                           session_infos |-> m.session_infos]]
  IN [unload_plugins(from, m.instances) EXCEPT !.state = "unloaded"]

\* ------------------------------------------------------------------ Init
Init ==
  \E addr \in {NoAddress, "192.0.2.1"}, policy \in SecurityPolicies,
     live \in (SUBSET {4, 6}) \ {{}} :
    LET s0 == Startup(StartupId(0), addr, 6523, policy, TRUE, "/srv/a")
        srv(fam) ==
          [status |-> "open", port |-> s0.port,
           address |-> IF addr # NoAddress THEN addr
                       ELSE IF fam = 6 THEN INFINOTED_CONFIG_RELOAD_IPV6_ANY_ADDR
                       ELSE NoAddress,
           credentials |-> s0.credentials,
           security_policy |-> s0.security_policy,
           sasl_context |-> s0.sasl_context,
           sasl_mechanisms |-> "PLAIN"]
    IN
    /\ run = [startup |-> s0,
              dh_params |-> IF s0.credentials # NULL THEN DhId(0) ELSE NULL,
              xmpp4 |-> IF 4 \in live THEN Tcp4Id(0) ELSE NULL,
              xmpp6 |-> IF 6 \in live THEN Tcp6Id(0) ELSE NULL,
              plugin_manager |-> ManagerId(0)]
    /\ pool = {Tcp4Id(0) : x \in live \cap {4}} \cup {Tcp6Id(0) : x \in live \cap {6}}
    /\ directory = [storage |-> StorageId(0), account_storage |-> StorageId(0)]
    /\ conns = [c \in Connections |->
                 [xmpp |-> c = "xmpp1",
                  sasl_context |-> IF c = "xmpp1" THEN s0.sasl_context ELSE NULL,
                  sasl_mechanisms |-> IF c = "xmpp1" THEN "PLAIN" ELSE "NULL"]]
    /\ servers = [i \in ServerIds |->
                   IF i = Tcp4Id(0) /\ 4 \in live THEN srv(4)
                   ELSE IF i = Tcp6Id(0) /\ 6 \in live THEN srv(6)
                   ELSE NoServer]
    /\ managers = [i \in ManagerIds |->
                    IF i = ManagerId(0)
                    THEN [refs |-> 1, state |-> "loaded", instances |-> Plugins]
                    ELSE NoManager]
    /\ storages = [i \in StorageIds |->
                    IF i = StorageId(0)
                    THEN [root_directory |-> s0.root_directory, state |-> "live"]
                    ELSE NoStorage]
    /\ freed = {}
    /\ L = NoLocals
    /\ pc = "idle"
    /\ result = TRUE
    /\ error = "none"
    /\ calls = 0
    /\ pre = LiveState
    /\ h = NoHistory
    /\ pm = infinoted_plugin_manager_new

\* ------------------------------------------------------- leaving the call
\* return res with *error = err; the locals go out of scope
Return(res, err) ==
  /\ pc' = "returned"
  /\ result' = res
  /\ error' = err
  /\ L' = NoLocals

\* g_object_unref(plugin_manager) on the failure paths, where the local
\* plugin_manager has not been assigned yet: the outcome depends on the
\* value g the variable happens to hold.  Then the rest of the failure path
\* (release st, free the new startup, return FALSE with err).
FailWithGarbageUnref(err, g, st) ==
  /\ g \in GarbagePointers
  /\ g = "live" => managers[run.plugin_manager].refs > 0
  /\ h' = [h EXCEPT !.garbage = g]
  /\ IF g = "wild"
     THEN /\ pc' = "crashed"
          /\ UNCHANGED <<managers, freed, L, result, error>>
          /\ storages' = st
     ELSE /\ managers' = IF g = "live"
                         THEN UnrefManager(managers, run.plugin_manager)
                         ELSE managers
          /\ storages' = st
          /\ freed' = freed \cup {L.startup.id}
          /\ Return(FALSE, err)

\* When a call has returned, only the objects the server still reaches
\* are followed further, under their generation 0 names: what earlier calls
\* freed, closed, released or leaked is dropped from the heap maps (a
\* dangling run->plugin_manager is kept).
\* a pointer to the credentials or SASL context of the live startup
CanonRef(x) == IF x = NULL THEN NULL ELSE StartupId(0)

CanonStartup ==
  [run.startup EXCEPT !.id = StartupId(0),
                      !.credentials = CanonRef(@),
                      !.sasl_context = CanonRef(@)]

CanonServer(x) ==
  [x EXCEPT !.credentials = CanonRef(@), !.sasl_context = CanonRef(@)]

CanonRun ==
  [startup |-> CanonStartup,
   dh_params |-> IF run.dh_params = NULL THEN NULL ELSE DhId(0),
   xmpp4 |-> IF run.xmpp4 = NULL THEN NULL ELSE Tcp4Id(0),
   xmpp6 |-> IF run.xmpp6 = NULL THEN NULL ELSE Tcp6Id(0),
   plugin_manager |-> ManagerId(0)]

CanonPool ==
  {Tcp4Id(0) : x \in pool \cap {run.xmpp4}} \cup
  {Tcp6Id(0) : x \in pool \cap {run.xmpp6}}

CanonServers ==
  [i \in ServerIds |->
    IF i = Tcp4Id(0) /\ run.xmpp4 # NULL THEN CanonServer(servers[run.xmpp4])
    ELSE IF i = Tcp6Id(0) /\ run.xmpp6 # NULL THEN CanonServer(servers[run.xmpp6])
    ELSE NoServer]

CanonManagers ==
  [i \in ManagerIds |->
    IF i = ManagerId(0) THEN managers[run.plugin_manager] ELSE NoManager]

CanonStorages ==
  [i \in StorageIds |->
    IF i = StorageId(0) THEN storages[directory.storage] ELSE NoStorage]

CanonDirectory == [storage |-> StorageId(0), account_storage |-> StorageId(0)]

CanonConnections == [c \in DOMAIN conns |-> CanonServer(conns[c])]

\* LiveState of the renamed heap
CanonLiveState ==
  [run |-> CanonRun, pool |-> CanonPool, directory |-> CanonDirectory,
   conns |-> CanonConnections,
   xmpp4 |-> CanonServers[Tcp4Id(0)],
   xmpp6 |-> CanonServers[Tcp6Id(0)],
   manager |-> CanonManagers[ManagerId(0)],
   storage |-> CanonStorages[StorageId(0)]]

\* the renaming loses nothing: between two calls every credentials and SASL
\* pointer is NULL or points into the live startup, the pool holds live
\* listeners only, and storage and account storage go together
RenamingIsFaithful ==
  pc = "returned" =>
    /\ \A x \in {run.xmpp4, run.xmpp6} \ {NULL} :
         /\ servers[x].credentials \in {NULL, run.startup.id}
         /\ servers[x].sasl_context \in {NULL, run.startup.id}
    /\ \A c \in DOMAIN conns : conns[c].sasl_context \in {NULL, run.startup.id}
    /\ run.startup.credentials \in {NULL, run.startup.id}
    /\ run.startup.sasl_context \in {NULL, run.startup.id}
    /\ pool \subseteq {run.xmpp4, run.xmpp6} \ {NULL}
    /\ directory.storage = directory.account_storage
    /\ run.xmpp4 # run.xmpp6

\* ----------------------------------------------------------------- steps
\* the new storage constructed after the new servers were opened
StepsStorageAfterOpen ==
  <<"dh", "addr", "port", "bind6", "bind4", "open6", "open4", "openchk",
    "storage", "remove6", "close6", "remove4", "close4", "new6", "add6",
    "new4", "add4", "cred6", "policy6", "cred4", "policy4", "unload",
    "setstorage", "pmload", "pmassign", "sasl4", "sasl6", "saslconn",
    "retire">>

\* the new plugin manager loaded before the new storage is installed
StepsLoadBeforeStorage ==
  <<"dh", "addr", "port", "bind6", "bind4", "storage", "open6", "open4",
    "openchk", "remove6", "close6", "remove4", "close4", "new6", "add6",
    "new4", "add4", "cred6", "policy6", "cred4", "policy4", "unload",
    "pmload", "setstorage", "pmassign", "sasl4", "sasl6", "saslconn",
    "retire">>

\* the old startup freed before the connections are updated
StepsRetireBeforeConnections ==
  <<"dh", "addr", "port", "bind6", "bind4", "storage", "open6", "open4",
    "openchk", "remove6", "close6", "remove4", "close4", "new6", "add6",
    "new4", "add4", "cred6", "policy6", "cred4", "policy4", "unload",
    "setstorage", "pmload", "pmassign", "sasl4", "sasl6", "retire",
    "saslconn">>

\* the security policy of a server set before its credentials
StepsPolicyBeforeCredentials ==
  <<"dh", "addr", "port", "bind6", "bind4", "storage", "open6", "open4",
    "openchk", "remove6", "close6", "remove4", "close4", "new6", "add6",
    "new4", "add4", "policy6", "cred6", "policy4", "cred4", "unload",
    "setstorage", "pmload", "pmassign", "sasl4", "sasl6", "saslconn",
    "retire">>

\* each old server replaced by its new counterpart in turn
StepsReplacePerFamily ==
  <<"dh", "addr", "port", "bind6", "bind4", "storage", "open6", "open4",
    "openchk", "remove6", "close6", "new6", "add6", "remove4", "close4",
    "new4", "add4", "cred6", "policy6", "cred4", "policy4", "unload",
    "setstorage", "pmload", "pmassign", "sasl4", "sasl6", "saslconn",
    "retire">>

\* the statement blocks of infinoted_config_reload in the order of the
\* function body: parameters, listen address, port, binds, storage, opens,
\* commit with new servers, commit in place, plugin manager, SASL, return
Steps ==
  <<"dh", "addr", "port", "bind6", "bind4", "storage", "open6", "open4",
    "openchk", "remove6", "close6", "remove4", "close4", "new6", "add6",
    "new4", "add4", "cred6", "policy6", "cred4", "policy4", "unload",
    "setstorage", "pmload", "pmassign", "sasl4", "sasl6", "saslconn",
    "retire">>

\* the block that follows block step when nothing is skipped
StepAfter(step) ==
  Steps[1 + CHOOSE i \in 1..(Len(Steps) - 1) : Steps[i] = step]

\* startup = infinoted_startup_new(NULL, NULL, error); if(!startup) return FALSE
StartupNew ==
  /\ pc = "idle"
  /\ UNCHANGED pm
  /\ calls < MaxReloads
  /\ calls' = calls + 1
  /\ UNCHANGED <<run, pool, directory, conns, servers, managers, storages,
                 freed, pre>>
  /\ \/ /\ h' = NoHistory
        /\ Return(FALSE, "Startup")
     \/ \E addr \in {NoAddress} \cup Addresses, port \in Ports,
           policy \in SecurityPolicies, sasl \in BOOLEAN,
           root \in RootDirectories :
          LET s == Startup(StartupId(1), addr, port, policy, sasl, root)
          IN /\ L' = [NoLocals EXCEPT !.startup = s]
             /\ h' = [NoHistory EXCEPT !.startup = s]
             /\ pc' = "dh"
             /\ result' = FALSE
             /\ error' = "none"

\* infinoted_dh_params_ensure has to provide parameters, and can fail, only
\* if there are none yet
DhParamsMissing(dh) == dh = NULL

\* dh_params = run->dh_params; if(startup->credentials)
\* infinoted_dh_params_ensure(..., &dh_params, error)
DhParamsEnsure ==
  /\ pc = "dh"
  /\ UNCHANGED pm
  /\ UNCHANGED <<run, pool, directory, conns, servers, managers, storages,
                 calls, pre>>
  /\ IF L.startup.credentials # NULL /\ DhParamsMissing(run.dh_params)
     THEN \/ /\ L' = [L EXCEPT !.dh_params = DhId(1)]
             /\ h' = [h EXCEPT !.dh_generated = TRUE, !.dh_attempted = TRUE]
             /\ pc' = StepAfter("dh")
             /\ UNCHANGED <<freed, result, error>>
          \/ /\ freed' = freed \cup {L.startup.id}
             /\ h' = [h EXCEPT !.dh_attempted = TRUE]
             /\ Return(FALSE, "DhParams")
     ELSE /\ L' = [L EXCEPT !.dh_params = run.dh_params]
          /\ pc' = StepAfter("dh")
          /\ UNCHANGED <<freed, result, error, h>>

\* the listen address may not change at runtime
CheckListenAddress ==
  /\ pc = "addr"
  /\ UNCHANGED pm
  /\ UNCHANGED <<run, pool, directory, conns, servers, managers, storages,
                 calls, pre, h>>
  /\ IF ListenAddressChanged(L.startup, run.startup)
     THEN /\ freed' = freed \cup {L.startup.id}
          /\ Return(FALSE, "ListenAddress")
     ELSE /\ pc' = StepAfter("addr")
          /\ UNCHANGED <<freed, L, result, error>>

\* new servers created on every reload
PortChangesAlways(new, port) == TRUE

\* if(startup->options->port != port): the port changes
PortChanges(new, port) == new.port # port

\* find out the port we are currently running on; create new servers only
\* if the port changes
FindPort ==
  /\ pc = "port"
  /\ UNCHANGED pm
  /\ UNCHANGED <<run, pool, directory, conns, servers, managers, storages,
                 freed, result, error, calls, pre, h>>
  /\ IF run.xmpp4 = NULL /\ run.xmpp6 = NULL
     THEN pc' = "crashed" /\ L' = L
     ELSE /\ L' = [L EXCEPT !.port = CurrentPort]
          /\ pc' = IF PortChanges(L.startup, CurrentPort) THEN StepAfter("port")
                   ELSE "storage"

\* the local addresses of the new servers: with a listen address both
\* servers get it, without one tcp6 gets the IPv6 any address and tcp4 none
addr6(startup) ==
  IF startup.listen_address = NoAddress
  THEN INFINOTED_CONFIG_RELOAD_IPV6_ANY_ADDR
  ELSE startup.listen_address

\* addr4 left unset when there is a listen address
addr4_unset(startup) == NoAddress

addr4(startup) ==
  IF startup.listen_address = NoAddress THEN NoAddress
  ELSE startup.listen_address

\* tcp6 = g_object_new(...); if(!infd_tcp_server_bind(tcp6, NULL)) drop it
Bind6 ==
  /\ pc = "bind6"
  /\ UNCHANGED pm
  /\ UNCHANGED <<run, pool, directory, conns, managers, storages, freed,
                 result, error, calls, pre>>
  /\ LET id == Tcp6Id(1)
         obj == [NoServer EXCEPT !.port = L.startup.port,
                                 !.address = addr6(L.startup)]
     IN \E ok \in BOOLEAN :
          /\ servers' = [servers EXCEPT ![id] =
                          [obj EXCEPT !.status = IF ok THEN "bound" ELSE "freed"]]
          /\ L' = [L EXCEPT !.tcp6 = IF ok THEN id ELSE NULL]
          /\ h' = [h EXCEPT !.created = @ \cup {id},
                            !.bind_failed = IF ok THEN @ ELSE @ \cup {id}]
  /\ pc' = StepAfter("bind6")

\* a failed bind of tcp4 never failing the call
BindFailureToleratedAlways(l) == TRUE

\* if(tcp6 != NULL) g_error_free(local_error): a failed bind of tcp4 is
\* tolerated if tcp6 is bound
BindFailureTolerated(l) == l.tcp6 # NULL

\* tcp4 = g_object_new(...); a failed bind is an error only if tcp6 is NULL
Bind4 ==
  /\ pc = "bind4"
  /\ UNCHANGED pm
  /\ UNCHANGED <<run, pool, directory, conns, managers, storages, calls, pre>>
  /\ LET id == Tcp4Id(1)
         obj == [NoServer EXCEPT !.port = L.startup.port,
                                 !.address = addr4(L.startup)]
     IN /\ \/ /\ servers' = [servers EXCEPT ![id] = [obj EXCEPT !.status = "bound"]]
              /\ h' = [h EXCEPT !.created = @ \cup {id}]
              /\ L' = [L EXCEPT !.tcp4 = id]
              /\ pc' = StepAfter("bind4")
              /\ UNCHANGED <<freed, result, error>>
           \/ /\ servers' = [servers EXCEPT ![id] = [obj EXCEPT !.status = "freed"]]
              /\ h' = [h EXCEPT !.created = @ \cup {id},
                                !.bind_failed = @ \cup {id}]
              /\ IF BindFailureTolerated(L)
                 THEN /\ pc' = StepAfter("bind4")
                      /\ UNCHANGED <<freed, L, result, error>>
                 ELSE /\ freed' = freed \cup {L.startup.id}
                      /\ Return(FALSE, "Bind4")

\* the root directory of the directory's storage is compared with the new
\* one; if it changes, a new storage and account storage are constructed
NewStorage ==
  /\ pc = "storage"
  /\ UNCHANGED pm
  /\ UNCHANGED <<run, pool, directory, conns, servers, calls, pre>>
  /\ LET root_directory == storages[directory.storage].root_directory
         id == StorageId(1)
         next == IF L.tcp4 # NULL \/ L.tcp6 # NULL THEN StepAfter("storage")
                 ELSE "cred6"
         made == [storages EXCEPT ![id] =
                   [root_directory |-> L.startup.root_directory, state |-> "new"]]
         dropped == [storages EXCEPT ![id] =
                   [root_directory |-> L.startup.root_directory,
                    state |-> "released"]]
     IN IF strcmp(root_directory, L.startup.root_directory) # 0
        THEN \/ /\ storages' = made
                /\ L' = [L EXCEPT !.filesystem_storage = id,
                                  !.filesystem_account_storage = id]
                /\ pc' = next
                /\ UNCHANGED <<managers, freed, result, error, h>>
             \/ \E g \in GarbagePointers : FailWithGarbageUnref("Storage", g, dropped)
        ELSE /\ pc' = next
             /\ UNCHANGED <<managers, storages, freed, L, result, error, h>>

\* if(tcp6 != NULL) infd_tcp_server_open(tcp6, &local_error)
Open6 ==
  /\ pc = "open6"
  /\ UNCHANGED pm
  /\ UNCHANGED <<run, pool, directory, conns, managers, storages, freed,
                 result, error, calls, pre>>
  /\ pc' = StepAfter("open6")
  /\ IF L.tcp6 # NULL
     THEN \/ /\ servers' = [servers EXCEPT ![L.tcp6].status = "open"]
             /\ h' = [h EXCEPT !.opened = @ \cup {L.tcp6}]
             /\ L' = [L EXCEPT !.local_error = "none"]
          \/ /\ servers' = [servers EXCEPT ![L.tcp6].status = "freed"]
             /\ L' = [L EXCEPT !.tcp6 = NULL, !.local_error = "Open6"]
             /\ h' = [h EXCEPT !.open_failed = @ \cup {L.tcp6}]
     ELSE UNCHANGED <<servers, L, h>>

\* if(tcp4) infd_tcp_server_open(tcp4, local_error ? NULL : &local_error)
Open4 ==
  /\ pc = "open4"
  /\ UNCHANGED pm
  /\ UNCHANGED <<run, pool, directory, conns, managers, storages, freed,
                 result, error, calls, pre>>
  /\ pc' = StepAfter("open4")
  /\ IF L.tcp4 # NULL
     THEN \/ /\ servers' = [servers EXCEPT ![L.tcp4].status = "open"]
             /\ h' = [h EXCEPT !.opened = @ \cup {L.tcp4}]
             /\ L' = L
          \/ /\ servers' = [servers EXCEPT ![L.tcp4].status = "freed"]
             /\ L' = [L EXCEPT !.tcp4 = NULL,
                               !.local_error = IF @ # "none" THEN @ ELSE "Open4"]
             /\ h' = [h EXCEPT !.open_failed = @ \cup {L.tcp4}]
     ELSE UNCHANGED <<servers, L, h>>

\* the open check never giving up
NoOpenFailed(l) == FALSE

\* the open check giving up as soon as one of the two servers is missing
AnyOpenFailed(l) == l.tcp4 = NULL \/ l.tcp6 = NULL

\* the open check looking at tcp6 only
NoNewServerLeft(l) == l.tcp6 = NULL

\* if(tcp4 == NULL && tcp6 == NULL): no new server could be opened
AllOpensFailed(l) == l.tcp4 = NULL /\ l.tcp6 = NULL

\* if both opens failed, fail with local_error; else drop local_error
OpenCheck ==
  /\ pc = "openchk"
  /\ UNCHANGED pm
  /\ UNCHANGED <<run, pool, directory, conns, servers, calls, pre>>
  /\ IF AllOpensFailed(L)
     THEN \E g \in GarbagePointers :
            FailWithGarbageUnref(L.local_error, g,
              IF L.filesystem_storage # NULL
              THEN [storages EXCEPT ![L.filesystem_storage].state = "released"]
              ELSE storages)
     ELSE /\ L' = [L EXCEPT !.local_error = "none"]
          /\ pc' = StepAfter("openchk")
          /\ UNCHANGED <<managers, storages, freed, result, error, h>>

\* ---- commit, new servers: close the old ones, then install the new ones
\* a close that leaves the server accepting
CloseServerNot(id) == servers

\* infd_xml_server_close(server); g_object_unref(server)
CloseServer(id) == [servers EXCEPT ![id].status = "closed"]

\* the old IPv4 server replaced only if a new IPv4 server exists
OldServer4OnlyIfNew == run.xmpp4 # NULL /\ L.tcp4 # NULL

\* if(run->xmpp4 != NULL): there is an old IPv4 server to close
OldServer4 == run.xmpp4 # NULL

\* infd_server_pool_remove_server(run->pool, run->xmpp6)
Remove6 ==
  /\ pc = "remove6"
  /\ UNCHANGED pm
  /\ pool' = IF run.xmpp6 # NULL THEN pool \ {run.xmpp6} ELSE pool
  /\ pc' = StepAfter("remove6")
  /\ UNCHANGED <<run, directory, conns, servers, managers, storages, freed, L,
                 result, error, calls, pre, h>>

\* infd_xml_server_close(run->xmpp6); g_object_unref; run->xmpp6 = NULL
Close6 ==
  /\ pc = "close6"
  /\ UNCHANGED pm
  /\ IF run.xmpp6 # NULL
     THEN /\ servers' = CloseServer(run.xmpp6)
          /\ h' = [h EXCEPT !.closed = @ \cup {run.xmpp6}]
          /\ run' = [run EXCEPT !.xmpp6 = NULL]
     ELSE UNCHANGED <<servers, h, run>>
  /\ pc' = StepAfter("close6")
  /\ UNCHANGED <<pool, directory, conns, managers, storages, freed, L,
                 result, error, calls, pre>>

\* infd_server_pool_remove_server(run->pool, run->xmpp4)
Remove4 ==
  /\ pc = "remove4"
  /\ UNCHANGED pm
  /\ pool' = IF OldServer4 THEN pool \ {run.xmpp4} ELSE pool
  /\ pc' = StepAfter("remove4")
  /\ UNCHANGED <<run, directory, conns, servers, managers, storages, freed, L,
                 result, error, calls, pre, h>>

\* infd_xml_server_close(run->xmpp4); g_object_unref; run->xmpp4 = NULL
Close4 ==
  /\ pc = "close4"
  /\ UNCHANGED pm
  /\ IF OldServer4
     THEN /\ servers' = CloseServer(run.xmpp4)
          /\ h' = [h EXCEPT !.closed = @ \cup {run.xmpp4}]
          /\ run' = [run EXCEPT !.xmpp4 = NULL]
     ELSE UNCHANGED <<servers, h, run>>
  /\ pc' = StepAfter("close4")
  /\ UNCHANGED <<pool, directory, conns, managers, storages, freed, L,
                 result, error, calls, pre>>

\* infd_xmpp_server_new(tcp, security_policy, credentials, NULL, NULL)
XmppServerNew(tcp) ==
  [servers EXCEPT ![tcp].security_policy = L.startup.security_policy,
                  ![tcp].credentials = L.startup.credentials,
                  ![tcp].sasl_context = NULL,
                  ![tcp].sasl_mechanisms = "NULL"]

\* if(tcp6 != NULL) run->xmpp6 = infd_xmpp_server_new(tcp6, ...)
New6 ==
  /\ pc = "new6"
  /\ UNCHANGED pm
  /\ IF L.tcp6 # NULL
     THEN /\ servers' = XmppServerNew(L.tcp6)
          /\ run' = [run EXCEPT !.xmpp6 = L.tcp6]
     ELSE UNCHANGED <<servers, run>>
  /\ pc' = StepAfter("new6")
  /\ UNCHANGED <<pool, directory, conns, managers, storages, freed, L,
                 result, error, calls, pre, h>>

\* infd_server_pool_add_server(run->pool, run->xmpp6)
Add6 ==
  /\ pc = "add6"
  /\ UNCHANGED pm
  /\ pool' = IF L.tcp6 # NULL THEN pool \cup {run.xmpp6} ELSE pool
  /\ pc' = StepAfter("add6")
  /\ UNCHANGED <<run, directory, conns, servers, managers, storages, freed, L,
                 result, error, calls, pre, h>>

\* if(tcp4 != NULL) run->xmpp4 = infd_xmpp_server_new(tcp4, ...)
New4 ==
  /\ pc = "new4"
  /\ UNCHANGED pm
  /\ IF L.tcp4 # NULL
     THEN /\ servers' = XmppServerNew(L.tcp4)
          /\ run' = [run EXCEPT !.xmpp4 = L.tcp4]
     ELSE UNCHANGED <<servers, run>>
  /\ pc' = StepAfter("new4")
  /\ UNCHANGED <<pool, directory, conns, managers, storages, freed, L,
                 result, error, calls, pre, h>>

\* infd_server_pool_add_server(run->pool, run->xmpp4)
Add4 ==
  /\ pc = "add4"
  /\ UNCHANGED pm
  /\ pool' = IF L.tcp4 # NULL THEN pool \cup {run.xmpp4} ELSE pool
  /\ pc' = "unload"
  /\ UNCHANGED <<run, directory, conns, servers, managers, storages, freed, L,
                 result, error, calls, pre, h>>

\* ---- commit, no new servers: new certificate settings for the old ones
\* g_object_set(run->xmpp6, "credentials", startup->credentials, ...
SetCredentials6 ==
  /\ pc = "cred6"
  /\ UNCHANGED pm
  /\ servers' = IF run.xmpp6 # NULL
                THEN [servers EXCEPT ![run.xmpp6].credentials = L.startup.credentials]
                ELSE servers
  /\ pc' = StepAfter("cred6")
  /\ UNCHANGED <<run, pool, directory, conns, managers, storages, freed, L,
                 result, error, calls, pre, h>>

\* ... "security-policy", startup->options->security_policy, NULL)
SetSecurityPolicy6 ==
  /\ pc = "policy6"
  /\ UNCHANGED pm
  /\ servers' = IF run.xmpp6 # NULL
                THEN [servers EXCEPT ![run.xmpp6].security_policy =
                                       L.startup.security_policy]
                ELSE servers
  /\ pc' = StepAfter("policy6")
  /\ UNCHANGED <<run, pool, directory, conns, managers, storages, freed, L,
                 result, error, calls, pre, h>>

\* g_object_set(run->xmpp4, "credentials", startup->credentials, ...
SetCredentials4 ==
  /\ pc = "cred4"
  /\ UNCHANGED pm
  /\ servers' = IF run.xmpp4 # NULL
                THEN [servers EXCEPT ![run.xmpp4].credentials = L.startup.credentials]
                ELSE servers
  /\ pc' = StepAfter("cred4")
  /\ UNCHANGED <<run, pool, directory, conns, managers, storages, freed, L,
                 result, error, calls, pre, h>>

\* ... "security-policy", startup->options->security_policy, NULL)
SetSecurityPolicy4 ==
  /\ pc = "policy4"
  /\ UNCHANGED pm
  /\ servers' = IF run.xmpp4 # NULL
                THEN [servers EXCEPT ![run.xmpp4].security_policy =
                                       L.startup.security_policy]
                ELSE servers
  /\ pc' = StepAfter("policy4")
  /\ UNCHANGED <<run, pool, directory, conns, managers, storages, freed, L,
                 result, error, calls, pre, h>>

\* ---- plugin reload
\* g_assert(run->plugin_manager != NULL); g_object_unref(run->plugin_manager).
\* If an earlier failed call already dropped the last reference, the pointer
\* dangles and the unref is a use after free: it crashes or goes unnoticed.
UnrefPluginManager ==
  /\ pc = "unload"
  /\ UNCHANGED pm
  /\ UNCHANGED <<run, pool, directory, conns, servers, storages, freed, L,
                 result, error, calls, pre, h>>
  /\ IF managers[run.plugin_manager].refs > 0
     THEN /\ managers' = UnrefManager(managers, run.plugin_manager)
          /\ pc' = StepAfter("unload")
     ELSE /\ managers' = managers
          /\ pc' \in {StepAfter("unload"), "crashed"}

\* if(filesystem_storage != NULL) g_object_set(run->directory, "storage", ...)
SetStorage ==
  /\ pc = "setstorage"
  /\ UNCHANGED pm
  /\ IF L.filesystem_storage # NULL
     THEN /\ directory' = [storage |-> L.filesystem_storage,
                           account_storage |-> L.filesystem_account_storage]
          /\ storages' = [storages EXCEPT ![directory.storage].state = "released",
                                          ![L.filesystem_storage].state = "live"]
     ELSE UNCHANGED <<directory, storages>>
  /\ pc' = StepAfter("setstorage")
  /\ UNCHANGED <<run, pool, conns, servers, managers, freed, L, result, error,
                 calls, pre, h>>

\* infinoted_plugin_manager_load: the plugins that initialize are the
\* instances of the manager; the result is FALSE unless all of them do
PluginManagerLoad(loaded, requested) ==
  [refs |-> 1, state |-> IF loaded = requested THEN "loaded" ELSE "disabled",
   instances |-> loaded]

\* plugin_manager = infinoted_plugin_manager_new(...);
\* result = infinoted_plugin_manager_load(...); a failure is only logged
LoadPlugins ==
  /\ pc = "pmload"
  /\ UNCHANGED pm
  /\ \E loaded \in SUBSET L.startup.plugins :
       /\ managers' = [managers EXCEPT ![ManagerId(1)] =
                         PluginManagerLoad(loaded, L.startup.plugins)]
       /\ L' = [L EXCEPT !.plugin_manager = ManagerId(1),
                         !.load_result = (loaded = L.startup.plugins)]
       /\ h' = [h EXCEPT !.load_failed = (loaded # L.startup.plugins)]
  /\ pc' = StepAfter("pmload")
  /\ UNCHANGED <<run, pool, directory, conns, servers, storages, freed,
                 result, error, calls, pre>>

\* the new plugin manager installed only if its plugins loaded
NewPluginManagerIfLoaded ==
  IF L.load_result THEN L.plugin_manager ELSE run.plugin_manager

\* the plugin manager installed after the load attempt, failed or not
NewPluginManager == L.plugin_manager

\* run->plugin_manager = plugin_manager
AssignPluginManager ==
  /\ pc = "pmassign"
  /\ UNCHANGED pm
  /\ run' = [run EXCEPT !.plugin_manager = NewPluginManager]
  /\ pc' = StepAfter("pmassign")
  /\ UNCHANGED <<pool, directory, conns, servers, managers, storages, freed, L,
                 result, error, calls, pre, h>>

\* ---- SASL context propagation
\* "sasl-context", ctx, "sasl-mechanisms", ctx ? "PLAIN" : NULL
SetSasl(obj, ctx) ==
  [obj EXCEPT !.sasl_context = ctx,
              !.sasl_mechanisms = IF ctx # NULL THEN "PLAIN" ELSE "NULL"]

\* if(run->xmpp4 != NULL) g_object_set(run->xmpp4, "sasl-context", ...)
SetSaslContext4 ==
  /\ pc = "sasl4"
  /\ UNCHANGED pm
  /\ servers' = IF run.xmpp4 # NULL
                THEN [servers EXCEPT ![run.xmpp4] = SetSasl(@, L.startup.sasl_context)]
                ELSE servers
  /\ pc' = StepAfter("sasl4")
  /\ UNCHANGED <<run, pool, directory, conns, managers, storages, freed, L,
                 result, error, calls, pre, h>>

\* if(run->xmpp6 != NULL) g_object_set(run->xmpp6, "sasl-context", ...)
SetSaslContext6 ==
  /\ pc = "sasl6"
  /\ UNCHANGED pm
  /\ servers' = IF run.xmpp6 # NULL
                THEN [servers EXCEPT ![run.xmpp6] = SetSasl(@, L.startup.sasl_context)]
                ELSE servers
  /\ pc' = StepAfter("sasl6")
  /\ UNCHANGED <<run, pool, directory, conns, managers, storages, freed, L,
                 result, error, calls, pre, h>>

\* the connection callback keeping the mechanism it finds
update_connection_sasl_context_keeps_mechanism(xml, userdata) ==
  IF ~xml.xmpp THEN xml ELSE [xml EXCEPT !.sasl_context = userdata]

\* infinoted_config_reload_update_connection_sasl_context: connections that
\* are not XMPP connections are left alone
update_connection_sasl_context(xml, userdata) ==
  IF ~xml.xmpp THEN xml ELSE SetSasl(xml, userdata)

\* infd_directory_foreach_connection(run->directory, ..., startup->sasl_context)
ForeachConnection ==
  /\ pc = "saslconn"
  /\ UNCHANGED pm
  /\ conns' = [c \in DOMAIN conns |->
                 update_connection_sasl_context(conns[c], L.startup.sasl_context)]
  /\ pc' = StepAfter("saslconn")
  /\ UNCHANGED <<run, pool, directory, servers, managers, storages, freed, L,
                 result, error, calls, pre, h>>

\* infinoted_startup_free(run->startup); run->startup = startup; return TRUE
Retire ==
  /\ pc = "retire"
  /\ UNCHANGED pm
  /\ freed' = freed \cup {run.startup.id}
  /\ run' = [run EXCEPT !.startup = L.startup]
  /\ Return(TRUE, error)
  /\ UNCHANGED <<pool, directory, conns, servers, managers, storages, calls,
                 pre, h>>

\* ---- between two calls
\* the caller has the result and the server runs on, with the objects it
\* still reaches (renamed to generation 0)
Continue ==
  /\ pc = "returned"
  /\ UNCHANGED pm
  /\ pc' = "idle"
  /\ pre' = CanonLiveState
  /\ run' = CanonRun
  /\ pool' = CanonPool
  /\ directory' = CanonDirectory
  /\ conns' = CanonConnections
  /\ servers' = CanonServers
  /\ managers' = CanonManagers
  /\ storages' = CanonStorages
  /\ freed' = {}
  /\ h' = NoHistory
  /\ result' = TRUE
  /\ error' = "none"
  /\ UNCHANGED <<L, calls>>

\* a plugin of the live plugin manager takes a reference on it
PluginRefsManager ==
  /\ pc = "idle"
  /\ UNCHANGED pm
  /\ managers[run.plugin_manager].instances # {}
  /\ managers[run.plugin_manager].refs < 1 + MaxPluginRefs
  /\ managers' = [managers EXCEPT ![run.plugin_manager].refs = @ + 1]
  /\ pre' = [pre EXCEPT !.manager.refs = @ + 1]
  /\ UNCHANGED <<run, pool, directory, conns, servers, storages, freed, L,
                 pc, result, error, calls, h>>

Next ==
  \/ StartupNew \/ DhParamsEnsure \/ CheckListenAddress \/ FindPort
  \/ Bind6 \/ Bind4 \/ NewStorage \/ Open6 \/ Open4 \/ OpenCheck
  \/ Remove6 \/ Close6 \/ Remove4 \/ Close4 \/ New6 \/ Add6 \/ New4 \/ Add4
  \/ SetCredentials6 \/ SetSecurityPolicy6 \/ SetCredentials4
  \/ SetSecurityPolicy4
  \/ UnrefPluginManager \/ SetStorage \/ LoadPlugins \/ AssignPluginManager
  \/ SetSaslContext4 \/ SetSaslContext6 \/ ForeachConnection \/ Retire
  \/ Continue \/ PluginRefsManager

Spec == Init /\ [][Next]_vars

\* ------------------------------------------- the plugin manager at work
\* infinoted_plugin_manager_load(manager, path, plugins, options, error)
PMLoad ==
  /\ pm.state = "new"
  /\ \E requested \in (SUBSET PluginNames) \ {{}} :
       \E ok \in SUBSET requested :
         pm' = infinoted_plugin_manager_load(pm, requested, ok)
  /\ UNCHANGED reloadVars

\* a connection is made to the server
PMConnectionAdded ==
  /\ pm.state # "unloaded"
  /\ pm.events < MaxEvents
  /\ \E c \in Connections \ pm.connections :
       pm' = ForEachPlugin("connection_added",
                           [pm EXCEPT !.connections = @ \cup {c}, !.events = @ + 1],
                           pm.instances, c)
  /\ UNCHANGED reloadVars

\* a connection of the server is dropped
PMConnectionRemoved ==
  /\ pm.state # "unloaded"
  /\ pm.events < MaxEvents
  /\ \E c \in pm.connections :
       pm' = ForEachPlugin("connection_removed",
                           [pm EXCEPT !.connections = @ \ {c}, !.events = @ + 1],
                           pm.instances, c)
  /\ UNCHANGED reloadVars

\* a session becomes active on the server
PMSessionAdded ==
  /\ pm.state # "unloaded"
  /\ pm.events < MaxEvents
  /\ \E s \in Sessions \ pm.sessions :
       pm' = ForEachPlugin("session_added",
                           [pm EXCEPT !.sessions = @ \cup {s}, !.events = @ + 1],
                           pm.instances, s)
  /\ UNCHANGED reloadVars

\* a session becomes inactive
PMSessionRemoved ==
  /\ pm.state # "unloaded"
  /\ pm.events < MaxEvents
  /\ \E s \in pm.sessions :
       pm' = ForEachPlugin("session_removed",
                           [pm EXCEPT !.sessions = @ \ {s}, !.events = @ + 1],
                           pm.instances, s)
  /\ UNCHANGED reloadVars

\* the last reference on the plugin manager is dropped
PMUnload ==
  /\ pm.state = "loaded"
  /\ pm' = infinoted_plugin_manager_unload(pm)
  /\ UNCHANGED reloadVars

InitPM ==
  /\ Init
  /\ run.startup.listen_address = NoAddress
  /\ run.startup.security_policy = "both"
  /\ run.xmpp4 # NULL /\ run.xmpp6 # NULL

NextPM ==
  \/ PMLoad \/ PMConnectionAdded \/ PMConnectionRemoved
  \/ PMSessionAdded \/ PMSessionRemoved \/ PMUnload

SpecPM == InitPM /\ [][NextPM]_vars

\* ------------------------------------------------------------- the claims
Returned == pc = "returned"
Succeeded == pc = "returned" /\ result = TRUE
Failed == pc = "returned" /\ result = FALSE

\* the call got a new startup (the configuration was parsed)
Parsed == h.startup.id # NULL

\* the listeners the server had when the call was entered, and has now
OldListeners == {pre.run.xmpp4, pre.run.xmpp6} \ {NULL}
LiveListeners == {run.xmpp4, run.xmpp6} \ {NULL}

\* the port the listeners were bound to when the call was entered
PrePort == IF pre.run.xmpp6 # NULL THEN pre.xmpp6.port ELSE pre.xmpp4.port

\* the new snapshot's listen address is not the old snapshot's
ListenAddressDiffers == h.startup.listen_address # pre.run.startup.listen_address

\* C1: whenever a reload call returns failure, the live server state is the
\* state the call was entered with: same listeners, still open and in the
\* pool, same plugin manager with its plugins, same configuration snapshot,
\* same storage.
C1_FailedReloadLeavesServerUntouched == Failed => LiveState = pre

\* C2 as stated: a changed listen address always yields the listen-address
\* error, and the listeners and plugin instances are the ones from before.
C2_ListenAddressErrorAlways ==
  (Returned /\ Parsed /\ ListenAddressDiffers)
    => /\ result = FALSE
       /\ error = "ListenAddress"
       /\ LiveState = pre

\* C2 amended: a changed listen address makes the reload fail with the server
\* untouched; the error is the listen-address error unless the new snapshot
\* has credentials, the server holds no DH parameters and providing them
\* failed, in which case it is the DH error (that step runs first).
\* (the new snapshot has credentials whenever the DH error is returned)
C2_ListenAddressChangeFails ==
  (Returned /\ Parsed /\ ListenAddressDiffers)
    => /\ result = FALSE
       /\ error \in {"ListenAddress", "DhParams"}
       /\ error = "DhParams" => h.startup.credentials # NULL
       /\ LiveState = pre

C2_Witness ==
  /\ Returned /\ Parsed
  /\ ListenAddressDiffers
  /\ h.startup.listen_address = NoAddress
  /\ error = "ListenAddress"

\* C3: once a newly created socket has been opened for accepting, the call
\* does not return failure: if it returns, it returns TRUE with no error.
C3_NoFailureAfterOpen ==
  (Returned /\ h.opened # {}) => (result = TRUE /\ error = "none")

C3_Witness ==
  /\ Succeeded
  /\ h.opened # {} /\ h.open_failed # {}
  /\ h.load_failed

\* the new snapshot differs from the old one in the port only
OnlyPortDiffers ==
  /\ h.startup.port # pre.run.startup.port
  /\ h.startup.listen_address = pre.run.startup.listen_address
  /\ h.startup.security_policy = pre.run.startup.security_policy
  /\ (h.startup.sasl_context = NULL) = (pre.run.startup.sasl_context = NULL)
  /\ h.startup.root_directory = pre.run.startup.root_directory
  /\ h.startup.plugins = pre.run.startup.plugins

\* C4: after a successful reload to a configuration with another port, every
\* live listener is a server bound to the new port, open and in the pool, and
\* every listener that was live before is out of the pool and closed.
C4_PortChangeReplacesListeners ==
  (Succeeded /\ h.startup.port # pre.run.startup.port)
    => /\ LiveListeners # {}
       /\ \A x \in LiveListeners :
            /\ servers[x].port = h.startup.port
            /\ servers[x].status = "open"
            /\ x \in pool
       /\ \A o \in OldListeners :
            /\ o \notin pool
            /\ o \notin LiveListeners
            /\ servers[o].status = "closed"

C4_Witness ==
  /\ Succeeded
  /\ OnlyPortDiffers
  /\ Cardinality(OldListeners) = 2
  /\ Cardinality(LiveListeners) = 2

\* C5: if every open attempt on the newly bound sockets failed, the call
\* returns failure with the error of an open, and the old listeners are the
\* listeners of the server: unchanged, open and in the pool.
C5_AllOpensFailedKeepsOldListeners ==
  (Returned /\ h.open_failed # {} /\ h.opened = {})
    => /\ result = FALSE
       /\ error \in {"Open6", "Open4"}
       /\ run.xmpp4 = pre.run.xmpp4 /\ run.xmpp6 = pre.run.xmpp6
       /\ pool = pre.pool
       /\ \A o \in OldListeners :
            /\ o \in pool
            /\ servers[o].status = "open"
            /\ servers[o] = (IF o = pre.run.xmpp4 THEN pre.xmpp4 ELSE pre.xmpp6)

C5_Witness ==
  /\ Failed
  /\ Cardinality(h.open_failed) = 2 /\ h.opened = {}
  /\ Cardinality(OldListeners) = 2

\* new servers are IPv6 servers (tcp6) or IPv4 servers (tcp4)
IsTcp6(id) == id % 2 = 1
IsTcp4(id) == id % 2 = 0

\* exactly one new server went into the commit
OneNewServer == Cardinality(h.opened) = 1

\* C6 as stated: when only one new socket exists at the commit, the old
\* listener of the other family is not closed and keeps running.
C6_OtherFamilyKeepsRunning ==
  (Succeeded /\ OneNewServer)
    => /\ (pre.run.xmpp4 # NULL /\ \A n \in h.opened : IsTcp6(n))
            => (run.xmpp4 = pre.run.xmpp4 /\ servers[pre.run.xmpp4].status = "open")
       /\ (pre.run.xmpp6 # NULL /\ \A n \in h.opened : IsTcp4(n))
            => (run.xmpp6 = pre.run.xmpp6 /\ servers[pre.run.xmpp6].status = "open")

\* C6 amended: when only one new socket exists at the commit, both old
\* listeners are removed from the pool and closed all the same; the new
\* server is the only listener afterwards and the other family has none.
C6_OneNewServerReplacesBothOld ==
  (Succeeded /\ OneNewServer)
    => /\ LiveListeners = h.opened
       /\ pool = h.opened
       /\ (\A n \in h.opened : IsTcp6(n)) => (run.xmpp4 = NULL /\ run.xmpp6 # NULL)
       /\ (\A n \in h.opened : IsTcp4(n)) => (run.xmpp6 = NULL /\ run.xmpp4 # NULL)
       /\ \A o \in OldListeners :
            o \notin pool /\ servers[o].status = "closed"

C6_Witness ==
  /\ Succeeded /\ OneNewServer
  /\ \A n \in h.opened : IsTcp6(n)
  /\ pre.run.xmpp4 # NULL /\ pre.run.xmpp6 # NULL
  /\ run.xmpp4 = NULL

\* a call is running or has just returned, for a new snapshot with the port
\* the listeners are bound to
SamePortCall ==
  /\ pc \notin {"idle", "crashed"}
  /\ Parsed
  /\ h.startup.port = PrePort

\* what a listener looks like after an in-place update: x with the fields in
\* fields taken from the new snapshot
UpdatedInPlace(x, fields) ==
  [f \in DOMAIN x |->
    IF f \notin fields THEN x[f]
    ELSE IF f = "credentials" THEN h.startup.credentials
    ELSE IF f = "security_policy" THEN h.startup.security_policy
    ELSE IF f = "sasl_context" THEN h.startup.sasl_context
    ELSE IF h.startup.sasl_context # NULL THEN "PLAIN" ELSE "NULL"]

\* the listeners are the objects from before the call, with exactly fields
\* updated
SameListenersUpdated(fields) ==
  /\ run.xmpp4 = pre.run.xmpp4 /\ run.xmpp6 = pre.run.xmpp6
  /\ run.xmpp4 # NULL => servers[run.xmpp4] = UpdatedInPlace(pre.xmpp4, fields)
  /\ run.xmpp6 # NULL => servers[run.xmpp6] = UpdatedInPlace(pre.xmpp6, fields)

\* no socket created, bound, opened or closed; the listeners stay the same
\* objects, open and in the pool
NoListenerDisruption ==
  /\ h.created = {} /\ h.opened = {} /\ h.closed = {}
  /\ run.xmpp4 = pre.run.xmpp4 /\ run.xmpp6 = pre.run.xmpp6
  /\ pool = pre.pool
  /\ \A x \in LiveListeners : servers[x].status = "open" /\ x \in pool

\* C7 as stated: with an unchanged port nothing is created or closed, and
\* after a successful reload the listeners are the same objects with only
\* credentials and security policy updated.
C7_OnlyCredentialsAndPolicyUpdated ==
  SamePortCall
    => /\ NoListenerDisruption
       /\ Succeeded => SameListenersUpdated({"credentials", "security_policy"})

\* C7 amended: with an unchanged port nothing is created or closed at any
\* point of the call, the listeners stay in the pool, and after a successful
\* reload they are the same objects with credentials, security policy, SASL
\* context and SASL mechanisms updated to the new snapshot's.
C7_SamePortUpdatesInPlace ==
  SamePortCall
    => /\ NoListenerDisruption
       /\ Succeeded =>
            SameListenersUpdated({"credentials", "security_policy",
                                  "sasl_context", "sasl_mechanisms"})

C7_Witness ==
  /\ Succeeded /\ Parsed
  /\ h.startup.port = PrePort
  /\ Cardinality(OldListeners) = 2
  /\ h.startup.security_policy # pre.run.startup.security_policy

\* C8: if loading the plugins fails, the call still returns TRUE with no
\* error, and run->plugin_manager is a new, live plugin manager (not NULL, not
\* the previous one).
C8_LoadFailureStillSucceeds ==
  (Returned /\ h.load_failed)
    => /\ result = TRUE /\ error = "none"
       /\ run.plugin_manager # NULL
       /\ run.plugin_manager # pre.run.plugin_manager
       /\ managers[run.plugin_manager].refs > 0
       /\ managers[run.plugin_manager].state = "disabled"

C8_Witness == Returned /\ h.load_failed /\ calls = 1

\* C9: when the new plugin manager has been loaded, every plugin instance of
\* the previous plugin manager has been deinitialized.
C9_OldManagerUnloadedBeforeNewLoads ==
  (pc \notin {"idle", "crashed"} /\ L.plugin_manager # NULL)
    => managers[pre.run.plugin_manager].instances = {}

\* the SASL context and mechanism of the new snapshot
CarriesNewSasl(x) ==
  /\ x.sasl_context = h.startup.sasl_context
  /\ x.sasl_mechanisms = (IF h.startup.sasl_context # NULL THEN "PLAIN" ELSE "NULL")

\* C10 as stated: after a successful reload every live listener and every
\* open connection carries the new snapshot's SASL context.
C10_EveryConnectionCarriesNewSasl ==
  Succeeded
    => /\ \A x \in LiveListeners : CarriesNewSasl(servers[x])
       /\ \A c \in DOMAIN conns : CarriesNewSasl(conns[c])

\* C10 amended: after a successful reload every live listener and every open
\* XMPP connection carries the new snapshot's SASL context (mechanism PLAIN,
\* or none); connections that are not XMPP connections are skipped; nothing
\* keeps the previous snapshot's SASL context.
C10_XmppConnectionsCarryNewSasl ==
  Succeeded
    => /\ \A x \in LiveListeners : CarriesNewSasl(servers[x])
       /\ \A c \in DOMAIN conns :
            /\ conns[c].xmpp => CarriesNewSasl(conns[c])
            /\ ~conns[c].xmpp => conns[c] = pre.conns[c]
            /\ pre.run.startup.sasl_context # NULL =>
                 conns[c].sasl_context # pre.run.startup.sasl_context

C10_Witness ==
  /\ Succeeded
  /\ pre.run.startup.sasl_context # NULL
  /\ pre.conns["xmpp1"].sasl_context = pre.run.startup.sasl_context
  /\ h.startup.sasl_context # NULL
  /\ conns["xmpp1"].sasl_context = h.startup.sasl_context
  /\ LiveListeners # {}

\* the errors a call can store for its caller
Errors ==
  {"Startup", "DhParams", "ListenAddress", "Bind4", "Storage", "Open6", "Open4"}

\* C11: a call returns FALSE if and only if it has stored an error for the
\* caller, and then exactly one: after FALSE the caller's error is one of the
\* errors of the failed steps (for failed opens the error of the first open
\* that failed, the other one being discarded), after TRUE it is unset.
C11_FailureIffError ==
  Returned
    => /\ (result = FALSE) <=> (error # "none")
       /\ result = FALSE => error \in Errors
       /\ (result = FALSE /\ h.open_failed # {})
            => error = (IF Tcp6Id(1) \in h.open_failed THEN "Open6" ELSE "Open4")

C11_Witness ==
  /\ Failed
  /\ error = "Open6"
  /\ Tcp4Id(1) \in h.open_failed

\* the root directory of the new snapshot is not the one of the storage
RootDirectoryDiffers ==
  h.startup.root_directory # pre.storage.root_directory

\* C12: after a successful reload with another root directory, storage and
\* account storage of the directory are the instances this call constructed,
\* live and bound to the new root, the previous storage is released, and the
\* connections are the ones from before; after any call with the same root
\* directory, the directory has the storage it had, unchanged.
C12_StorageSwappedIffRootChanges ==
  /\ (Succeeded /\ RootDirectoryDiffers)
       => /\ directory.storage = StorageId(1)
          /\ directory.account_storage = StorageId(1)
          /\ directory.storage # pre.directory.storage
          /\ storages[directory.storage] =
               [root_directory |-> h.startup.root_directory, state |-> "live"]
          /\ storages[pre.directory.storage].state = "released"
          /\ DOMAIN conns = DOMAIN pre.conns
  /\ (Returned /\ Parsed /\ ~RootDirectoryDiffers)
       => /\ directory = pre.directory
          /\ storages[directory.storage] = pre.storage
          /\ storages[StorageId(1)] = NoStorage

C12_Witness ==
  /\ Succeeded
  /\ RootDirectoryDiffers
  /\ directory.storage = StorageId(1)
  /\ h.opened # {}

\* both new servers failed to bind
BothBindsFailed == h.bind_failed = {Tcp6Id(1), Tcp4Id(1)}

\* C16 as stated: when both binds fail, the call fails with the server
\* untouched and reports the error of the first bind attempted (tcp6).
C16_FirstBindErrorReported ==
  (Returned /\ BothBindsFailed)
    => /\ result = FALSE
       /\ error = "Bind6"
       /\ LiveState = pre

\* C16 amended: when both binds fail, the call fails with the server
\* untouched and reports the error of the second bind attempted (tcp4); the
\* error of the first (tcp6) is discarded.
C16_SecondBindErrorReported ==
  (Returned /\ BothBindsFailed)
    => /\ result = FALSE
       /\ error = "Bind4"
       /\ LiveState = pre
       /\ \A s \in h.created : servers[s].status = "freed"

C16_Witness ==
  /\ Failed
  /\ BothBindsFailed
  /\ error = "Bind4"
  /\ Cardinality(OldListeners) = 2

\* the new snapshot names a listen address
ExplicitAddress == h.startup.listen_address # NoAddress

\* C17 as stated: with a listen address a port change constructs one new
\* socket and commits at most one new listener; without one it constructs
\* two.
C17_SingleSocketForExplicitAddress ==
  (Returned /\ Parsed /\ h.created # {})
    => IF ExplicitAddress
       THEN Cardinality(h.created) = 1 /\ Cardinality(h.opened) <= 1
       ELSE Cardinality(h.created) = 2

\* C17 amended: a port change always constructs two new sockets for the new
\* port and tries to bind each: with a listen address both for that address,
\* without one tcp6 for the IPv6 any address and tcp4 for no address; the
\* listeners after a successful reload are the ones of them that opened, up
\* to two in either case.
C17_TwoSocketsConstructed ==
  (Returned /\ Parsed /\ h.created # {})
    => /\ h.created = {Tcp6Id(1), Tcp4Id(1)}
       /\ \A s \in h.created : servers[s].port = h.startup.port
       /\ servers[Tcp6Id(1)].address =
            (IF ExplicitAddress THEN h.startup.listen_address
             ELSE INFINOTED_CONFIG_RELOAD_IPV6_ANY_ADDR)
       /\ servers[Tcp4Id(1)].address =
            (IF ExplicitAddress THEN h.startup.listen_address ELSE NoAddress)
       /\ Succeeded => LiveListeners = h.opened

C17_Witness ==
  /\ Succeeded
  /\ ExplicitAddress
  /\ LiveListeners = {Tcp6Id(1), Tcp4Id(1)}
  /\ \A x \in LiveListeners : servers[x].address = h.startup.listen_address

\* no socket created by the call is accepting
NoNewSocketOpen ==
  /\ h.opened = {}
  /\ \A s \in h.created : servers[s].status # "open"

\* C18: nothing that can make the call fail happens while a new socket is
\* accepting: when the storage step is reached no open has been attempted,
\* a storage failure finds no new socket open, once an open has been
\* attempted a changed root directory has its new storage constructed, and a
\* call that fails leaves no new socket open.
C18_AbortingStepsBeforeOpen ==
  /\ pc = "storage" => (NoNewSocketOpen /\ h.open_failed = {})
  /\ (Returned /\ error = "Storage") => (NoNewSocketOpen /\ h.open_failed = {})
  /\ (pc \notin {"idle", "crashed"} /\ h.opened \cup h.open_failed # {})
       => (RootDirectoryDiffers => storages[StorageId(1)].state # "none")
  /\ Failed => NoNewSocketOpen

C18_Witness ==
  /\ Failed
  /\ error = "Storage"
  /\ h.created \ h.bind_failed # {}

\* C19: in a running or returned call, the new plugin manager is constructed
\* and loaded only after the server's reference on the previous one has been
\* released and after a new storage, if there is one, has been installed in
\* the directory; the storage is installed only after that release; and
\* run->plugin_manager is replaced only after the load has been attempted.
C19_PluginReloadOrder ==
  LET old == pre.run.plugin_manager
      released ==
        managers[old].refs =
          (IF pre.manager.refs > 0 THEN pre.manager.refs - 1 ELSE 0)
      installed ==
        RootDirectoryDiffers
          => /\ directory.storage = StorageId(1)
             /\ storages[StorageId(1)].state = "live"
      attempted == managers[ManagerId(1)].state \in {"loaded", "disabled"}
  IN pc \notin {"idle", "crashed"}
       => /\ attempted => (released /\ installed)
          /\ directory.storage # pre.directory.storage => released
          /\ pc = "setstorage" => (released /\ ~attempted)
          /\ run.plugin_manager # old => attempted
          /\ Succeeded => (attempted /\ run.plugin_manager = ManagerId(1))

C19_Witness ==
  /\ Succeeded
  /\ RootDirectoryDiffers
  /\ run.plugin_manager = ManagerId(1)
  /\ managers[pre.run.plugin_manager].state = "finalized"
  /\ managers[ManagerId(1)].state = "loaded"

\* C20: once the previous startup has been freed, no live listener and no
\* connection has the SASL context it owned; they have the new one.
C20_OldSaslUnreferencedWhenFreed ==
  (pre.run.startup.id \in freed /\ pre.run.startup.sasl_context # NULL)
    => /\ \A x \in LiveListeners :
            /\ servers[x].sasl_context # pre.run.startup.sasl_context
            /\ servers[x].sasl_context = h.startup.sasl_context
       /\ \A c \in DOMAIN conns :
            /\ conns[c].sasl_context # pre.run.startup.sasl_context
            /\ conns[c].xmpp => conns[c].sasl_context = h.startup.sasl_context

C20_Witness ==
  /\ pre.run.startup.id \in freed
  /\ pre.conns["xmpp1"].sasl_context = pre.run.startup.sasl_context
  /\ pre.run.startup.sasl_context # NULL
  /\ h.startup.sasl_context = NULL
  /\ conns["xmpp1"].sasl_context = NULL

\* ------------------------------------------ claims on the plugin manager
\* how often, and where first, a callback is found in a log
Count(log, call) == Cardinality({i \in DOMAIN log : log[i] = call})
First(log, call) == CHOOSE i \in DOMAIN log : log[i] = call

\* C13: after a load, every requested plugin was initialized once; one whose
\* initialize failed has had deinitialize called exactly once, right after,
\* got no other callback, is no instance of the manager and has its
\* structure freed; one whose initialize succeeded is an instance and has not
\* been deinitialized: the instances are the plugins that initialized.
C13_FailedInitializeIsDeinitialized ==
  pm.state = "loaded"
    => /\ pm.instances = pm.init_ok
       /\ \A p \in pm.requested :
            /\ Count(pm.log, Call("on_initialize", p, p)) = 1
            /\ p \notin pm.init_ok
                 => /\ Count(pm.log, Call("on_deinitialize", p, p)) = 1
                    /\ First(pm.log, Call("on_deinitialize", p, p)) =
                         First(pm.log, Call("on_initialize", p, p)) + 1
                    /\ \A i \in DOMAIN pm.log :
                         pm.log[i].plugin = p
                           => pm.log[i].cb \in {"on_initialize", "on_deinitialize"}
                    /\ p \notin pm.instances
                    /\ Block("plugin", p, p) \notin pm.blocks
            /\ p \in pm.init_ok
                 => /\ Count(pm.log, Call("on_deinitialize", p, p)) = 0
                    /\ Block("plugin", p, p) \in pm.blocks

C13_Witness ==
  /\ pm.state = "loaded"
  /\ pm.requested = PluginNames
  /\ pm.init_ok = {"logging"}
  /\ pm.connections # {}

\* the callbacks the unload made
UnloadLog == SubSeq(pm.log, pm.unload_from + 1, Len(pm.log))

C15_SessionCallbacksForEverySession ==
  pm.state = "loaded"
    => \A p \in pm.instances, s \in pm.sessions :
         /\ Count(pm.log, Call("on_session_added", p, s)) >= 1
         /\ Block("session", p, s) \in pm.blocks
              => (InfinotedPlugin(p).session_type \in {"NULL", SessionType(s)})

\* ------------------------------------------------ more claims on the reload
\* C21: when the listeners are updated in place (port unchanged), no listener
\* has a security policy changed to the new one while it still has the
\* credentials from before: credentials are set first, on each listener.
C21_CredentialsBeforePolicy ==
  SamePortCall
    => /\ run.xmpp6 # NULL
            => (servers[run.xmpp6].security_policy # pre.xmpp6.security_policy
                  => servers[run.xmpp6].credentials = h.startup.credentials)
       /\ run.xmpp4 # NULL
            => (servers[run.xmpp4].security_policy # pre.xmpp4.security_policy
                  => servers[run.xmpp4].credentials = h.startup.credentials)
       /\ Succeeded
            => \A x \in LiveListeners :
                 /\ servers[x].credentials = h.startup.credentials
                 /\ servers[x].security_policy = h.startup.security_policy

C21_Witness ==
  /\ SamePortCall
  /\ pc = "policy4"
  /\ run.xmpp4 # NULL /\ run.xmpp6 # NULL
  /\ servers[run.xmpp4].credentials = h.startup.credentials
  /\ servers[run.xmpp4].security_policy # h.startup.security_policy
  /\ servers[run.xmpp6].security_policy = h.startup.security_policy

\* nothing of the server has been touched and no socket or storage made
NoSideEffect ==
  /\ LiveState = pre
  /\ h.created = {} /\ h.opened = {} /\ h.closed = {}
  /\ storages[StorageId(1)] = NoStorage

\* C22 as stated: a call with a changed listen address never attempts to
\* generate Diffie-Hellman parameters, and fails with the listen-address
\* error and no side effect.
C22_AddressCheckBeforeDhParams ==
  (pc \notin {"idle", "crashed"} /\ Parsed /\ ListenAddressDiffers)
    => /\ ~h.dh_attempted
       /\ Returned => (result = FALSE /\ error = "ListenAddress" /\ NoSideEffect)

\* C22 amended: the Diffie-Hellman step runs before the listen-address
\* check: a call with a changed listen address fails without touching the
\* server and without creating a socket or storage, but when the new snapshot
\* has credentials, parameters may have been generated first (and a failure
\* to do so is the error reported); without credentials no generation is
\* attempted and the error is the listen-address error.
C22_AddressCheckAfterDhParams ==
  (pc \notin {"idle", "crashed"} /\ Parsed /\ ListenAddressDiffers)
    => /\ h.dh_attempted => h.startup.credentials # NULL
       /\ pc \in {"dh", "addr", "returned"}
       /\ NoSideEffect
       /\ Returned
            => /\ result = FALSE
               /\ error = (IF h.dh_attempted /\ ~h.dh_generated
                           THEN "DhParams" ELSE "ListenAddress")

C22_Witness ==
  /\ Failed /\ Parsed
  /\ ListenAddressDiffers
  /\ h.dh_generated
  /\ error = "ListenAddress"

\* C23: Diffie-Hellman parameters are generated only for a snapshot with
\* credentials when the server holds none, and after a successful reload that
\* generated them the server holds parameters (so that the next reload does
\* not generate them again).
C23_GeneratedDhParamsKept ==
  /\ h.dh_generated
       => (h.startup.credentials # NULL /\ pre.run.dh_params = NULL)
  /\ (Succeeded /\ h.dh_generated) => run.dh_params # NULL

\* C24: whenever no call is running, and when a call looks for the current
\* port, the server has a listener.
C24_AlwaysAListener ==
  pc \in {"idle", "returned", "dh", "addr", "port"} => LiveListeners # {}

C24_Witness ==
  /\ Succeeded
  /\ calls = MaxReloads
  /\ Cardinality(OldListeners) = 2
  /\ Cardinality(h.open_failed) = 1
  /\ Cardinality(LiveListeners) = 1

\* C25: when a call returns failure, every socket and storage it created is
\* released, and nothing else is: the plugin manager, which the call has not
\* replaced, is as it was.
C25_FailureReleasesWhatItCreated ==
  Failed
    => /\ \A s \in h.created : servers[s].status = "freed"
       /\ storages[StorageId(1)].state \in {"none", "released"}
       /\ managers[pre.run.plugin_manager] = pre.manager
       /\ storages[pre.directory.storage] = pre.storage
       /\ \A o \in OldListeners : servers[o].status = "open"

\* C26: when a call has returned, the pool holds exactly the live listeners;
\* at every point of a call a closed server is out of the pool, every live
\* listener installed by the previous steps is in it once its add has run,
\* and the pool never holds a listener from before the call together with a
\* server the call created.
C26_PoolHoldsLiveListeners ==
  /\ pc \in {"idle", "returned"} => pool = LiveListeners
  /\ pc \notin {"idle", "crashed"}
       => /\ \A s \in ServerIds : servers[s].status = "closed" => s \notin pool
          /\ ~(pool \cap OldListeners # {} /\ pool \cap h.created # {})
          /\ pool \subseteq LiveListeners \cup OldListeners
          /\ \A o \in h.closed : o \notin pool /\ servers[o].status = "closed"
          /\ Succeeded => (h.opened # {} => pool = h.opened)

C26_Witness ==
  /\ pc = "add4"
  /\ Cardinality(h.closed) = 2
  /\ pool = {Tcp6Id(1)}
  /\ L.tcp4 # NULL

====
